---- MODULE Spec2Model ----
(***************************************************************************)
(* Model of genbox's distribution(): the two passes over the account list, *)
(* the nonVotersMultiplier solver between them and the minted part, and   *)
(* printAirdropsStats() on the airdrop it returned.                        *)
(*                                                                         *)
(* Every amount of the program is an sdk.Dec: an arbitrary-size integer    *)
(* counting units of 10^-18.  TLC's integers are 32 bits wide, so the      *)
(* integer behind a Dec (and behind an sdk.Int) is kept here as a sequence *)
(* of limbs in base 1000, least significant limb first, with no zero limb  *)
(* at the top; zero is the empty sequence.  The program's amounts,         *)
(* weights and parameters are never negative and the only subtraction is   *)
(* 1 - 0.33, so the model keeps magnitudes only.                           *)
(***************************************************************************)
EXTENDS Integers, Sequences, FiniteSets, TLC

VARIABLES
    accounts,   \* the account list distribution() is called with
    params,     \* its distriParams
    prefix,     \* its target prefix ("" for none)
    pc,         \* where distribution() is: "pass1" (first loop and the solver),
                \* "pass2" (second loop and the minted part), "returned", "panic";
                \* then where printAirdropsStats() is: "printAtone" (before the
                \* $ATONE table), "printed", "printPanic"
    pos,        \* the index of the next account of the running loop
    airdrop,    \* the local airdrop struct
    ret,        \* the (airdrop, error) pair returned
    printed     \* the distribs printDistrib has been called on

vars == <<accounts, params, prefix, pc, pos, airdrop, ret, printed>>

\* ------------------------------------------------------------------------
\* Integers of any size (math/big behind sdk.Dec and sdk.Int)
\* ------------------------------------------------------------------------

\* The base of a limb.
Base == 1000

\* The number of limbs that hold the 18 fractional digits of a Dec.
PrecisionLimbs == 6

RECURSIVE Norm(_)
\* s without its zero limbs at the top.
Norm(s) ==
    IF s = <<>> THEN <<>>
    ELSE IF s[Len(s)] = 0 THEN Norm(SubSeq(s, 1, Len(s) - 1))
    ELSE s

RECURSIVE FromNat(_)
\* The limbs of a natural number that fits TLC's integers.
FromNat(n) ==
    IF n = 0 THEN <<>> ELSE <<n % Base>> \o FromNat(n \div Base)

RECURSIVE AddCarry(_, _, _)
AddCarry(a, b, c) ==
    IF a = <<>> /\ b = <<>> THEN (IF c = 0 THEN <<>> ELSE <<c>>)
    ELSE LET x == IF a = <<>> THEN 0 ELSE Head(a)
             y == IF b = <<>> THEN 0 ELSE Head(b)
             s == x + y + c
         IN  <<s % Base>> \o AddCarry(IF a = <<>> THEN <<>> ELSE Tail(a),
                                      IF b = <<>> THEN <<>> ELSE Tail(b),
                                      s \div Base)

\* big.Int.Add
BigAdd(a, b) == AddCarry(a, b, 0)

RECURSIVE CmpFrom(_, _, _)
\* -1, 0 or 1, comparing limbs i, i-1, ..., 1 of two numbers of equal length.
CmpFrom(a, b, i) ==
    IF i = 0 THEN 0
    ELSE IF a[i] < b[i] THEN -1
    ELSE IF a[i] > b[i] THEN 1
    ELSE CmpFrom(a, b, i - 1)

\* big.Int.Cmp
BigCmp(a, b) ==
    IF Len(a) < Len(b) THEN -1
    ELSE IF Len(a) > Len(b) THEN 1
    ELSE CmpFrom(a, b, Len(a))

RECURSIVE SubBorrow(_, _, _)
SubBorrow(a, b, c) ==
    IF a = <<>> THEN <<>>
    ELSE LET y == (IF b = <<>> THEN 0 ELSE Head(b)) + c
             d == Head(a) - y
         IN  <<IF d < 0 THEN d + Base ELSE d>>
             \o SubBorrow(Tail(a), IF b = <<>> THEN <<>> ELSE Tail(b),
                          IF d < 0 THEN 1 ELSE 0)

\* big.Int.Sub, for a >= b.
BigSub(a, b) == Norm(SubBorrow(a, b, 0))

RECURSIVE MulLimb(_, _, _)
MulLimb(a, k, c) ==
    IF a = <<>> THEN (IF c = 0 THEN <<>> ELSE <<c>>)
    ELSE LET p == Head(a) * k + c
         IN  <<p % Base>> \o MulLimb(Tail(a), k, p \div Base)

\* a times one limb k.
BigMulLimb(a, k) == IF k = 0 THEN <<>> ELSE MulLimb(a, k, 0)

\* a times Base.
ShiftUp(a) == IF a = <<>> THEN <<>> ELSE <<0>> \o a

\* The one element of a singleton set.  Val({e(x) : x \in {a}}) evaluates a
\* once and e on its value: TLC evaluates an operator's arguments only where
\* they are used, and as often as they are used.
Val(S) == CHOOSE v \in S : TRUE

RECURSIVE MulRange(_, _, _, _, _)
\* acc * Base^(hi-lo+1) + (limbs hi, ..., lo of a) * b.  The range is halved
\* rather than walked limb by limb to keep the evaluation shallow.
MulRange(a, b, lo, hi, acc) ==
    IF lo > hi THEN acc
    ELSE IF lo = hi THEN BigAdd(ShiftUp(acc), BigMulLimb(b, a[lo]))
    ELSE Val({MulRange(a, b, lo, (lo + hi) \div 2, x) :
                 x \in {MulRange(a, b, ((lo + hi) \div 2) + 1, hi, acc)}})

\* big.Int.Mul
BigMul(a, b) == MulRange(a, b, 1, Len(a), <<>>)

RECURSIVE QuoLimb(_, _, _, _)
\* The limb q with q*b <= r < (q+1)*b, knowing lo*b <= r < hi*b.
QuoLimb(r, b, lo, hi) ==
    IF hi - lo = 1 THEN lo
    ELSE LET mid == (lo + hi) \div 2
         IN  IF BigCmp(BigMulLimb(b, mid), r) <= 0
             THEN QuoLimb(r, b, mid, hi)
             ELSE QuoLimb(r, b, lo, mid)

\* One step of long division by b: from the quotient and remainder
\* st = <<q, r>> of the limbs already seen to those with one more limb.
DivStep(limb, b, st) ==
    Val({Val({<<Norm(<<d>> \o st[1]), BigSub(r1, BigMulLimb(b, d))>> :
                 d \in {IF BigCmp(r1, b) < 0 THEN 0
                        ELSE QuoLimb(r1, b, 1, Base)}}) :
            r1 \in {Norm(<<limb>> \o st[2])}})

RECURSIVE DivRange(_, _, _, _, _)
\* Long division by b of limbs hi, ..., lo of a, starting from st.
DivRange(a, b, lo, hi, st) ==
    IF lo > hi THEN st
    ELSE IF lo = hi THEN DivStep(a[lo], b, st)
    ELSE Val({DivRange(a, b, lo, (lo + hi) \div 2, s) :
                 s \in {DivRange(a, b, ((lo + hi) \div 2) + 1, hi, st)}})

\* big.Int.QuoRem for b # 0: <<a div b, a mod b>>.
BigQuoRem(a, b) == DivRange(a, b, 1, Len(a), <<<<>>, <<>>>>)

\* ------------------------------------------------------------------------
\* sdk.Dec and sdk.Int (cosmos-sdk types): 18 fractional digits, every
\* product and quotient rounded half to even at the 18th digit
\* ------------------------------------------------------------------------

RECURSIVE Pow10(_)
\* 10^n
Pow10(n) ==
    IF n = 0 THEN <<1>> ELSE Val({BigMulLimb(p, 10) : p \in {Pow10(n - 1)}})

\* sdk.Precision, the number of fractional digits of a Dec.
Precision == 18

\* precisionReuse = 10^Precision: the integer behind the Dec 1.
PrecisionReuse == Pow10(Precision)

\* fivePrecision = precisionReuse / 2: the integer behind the Dec 0.5.
FivePrecision == BigQuoRem(PrecisionReuse, <<2>>)[1]

\* chopPrecisionAndRound, for x >= 0: x / 10^18 rounded half to even.  The
\* quotient and remainder by 10^18 = Base^PrecisionLimbs are the limbs above
\* and below limb PrecisionLimbs.
ChopPrecisionAndRound(x) ==
    LET quo == IF Len(x) > PrecisionLimbs
               THEN SubSeq(x, PrecisionLimbs + 1, Len(x)) ELSE <<>>
        rem == IF Len(x) > PrecisionLimbs
               THEN Norm(SubSeq(x, 1, PrecisionLimbs)) ELSE x
        c   == BigCmp(rem, FivePrecision)
    IN  IF rem = <<>> THEN quo
        ELSE IF c < 0 THEN quo
        ELSE IF c > 0 THEN BigAdd(quo, <<1>>)
        ELSE IF quo = <<>> \/ quo[1] % 2 = 0 THEN quo
        ELSE BigAdd(quo, <<1>>)

\* sdk.ZeroDec()
ZeroDec == <<>>

\* sdk.OneDec()
OneDec == PrecisionReuse

\* sdk.NewDec(n)
NewDec(n) == BigMul(FromNat(n), PrecisionReuse)

\* sdk.NewDecWithPrec(n, prec) = n * 10^-prec
NewDecWithPrec(n, prec) == BigMul(FromNat(n), Pow10(Precision - prec))

\* Dec.Add and Dec.Sub (exact)
Add(a, b) == Val({BigAdd(x, y) : x \in {a}, y \in {b}})
Sub(a, b) == Val({BigSub(x, y) : x \in {a}, y \in {b}})

\* Dec.Mul: the product of the two integers, chopped and rounded.
Mul(a, b) ==
    Val({ChopPrecisionAndRound(p) : p \in {BigMul(x, y) : x \in {a}, y \in {b}}})

\* Dec.Quo, for b # 0: a * 10^18 * 10^18 / b truncated, then chopped and
\* rounded.  (For b = 0 big.Int.Quo panics: the callers decide that case.)
Quo(a, b) ==
    Val({ChopPrecisionAndRound(BigQuoRem(m, y)[1]) :
            m \in {BigMul(BigMul(x, PrecisionReuse), PrecisionReuse) : x \in {a}},
            y \in {b}})

\* Dec.RoundInt: the sdk.Int nearest to the Dec, half to even.
RoundInt(a) == Val({ChopPrecisionAndRound(x) : x \in {a}})

\* Dec.IsZero / Int.IsZero
IsZero(a) == a = <<>>

\* a <= b
Leq(a, b) == BigCmp(a, b) <= 0

\* The zero value of an sdk.Dec field that was never assigned (a nil big.Int):
\* not the magnitude of any number.
NilDec == <<-1>>

\* ------------------------------------------------------------------------
\* Addresses
\* ------------------------------------------------------------------------

\* A bech32 address string is kept as what decoding reads from it: its
\* human-readable prefix, the bytes it encodes, and whether it decodes at all
\* (charset and checksum).
Addr(hrp, bytes) == [hrp |-> hrp, bytes |-> bytes, valid |-> TRUE]

\* icfWallets, the hardcoded list of ICF wallets.
icfWallets ==
    <<Addr("cosmos", "z8mz"), Addr("cosmos", "unc7"), Addr("cosmos", "sufk"),
      Addr("cosmos", "z6cz"), Addr("cosmos", "17u9")>>

\* slices.Contains
Contains(list, x) == \E k \in 1..Len(list) : list[k] = x

\* convertBech32(addr, src, dst): sdk.GetFromBech32 fails on a string that
\* does not decode or whose prefix is not src; sdk.Bech32ifyAddressBytes
\* encodes the same bytes under dst.  On failure the address returned is "".
convertBech32(addr, src, dst) ==
    IF ~addr.valid \/ addr.hrp # src
    THEN [addr |-> [hrp |-> "", bytes |-> "", valid |-> FALSE],
          err  |-> "GetFromBech32"]
    ELSE [addr |-> [hrp |-> dst, bytes |-> addr.bytes, valid |-> TRUE],
          err  |-> "nil"]

\* ------------------------------------------------------------------------
\* Votes
\* ------------------------------------------------------------------------

\* allVoteOptions
allVoteOptions == <<"Empty", "Yes", "Abstain", "No", "NoWithVeto">>

VoteOptions == {allVoteOptions[k] : k \in 1..Len(allVoteOptions)}

\* newVoteMap(): every option present, at zero.
newVoteMap == [v \in VoteOptions |-> ZeroDec]

\* Account.voteWeights(): the weight of each of the five options.  An account
\* that cast a vote has the weights of its vote and none on Empty; an account
\* that cast none has weight 1 on Empty.
voteWeights(acc) ==
    [v \in VoteOptions |->
        IF v \in DOMAIN acc.Vote THEN acc.Vote[v]
        ELSE IF v = "Empty" /\ DOMAIN acc.Vote = {} THEN OneDec
        ELSE ZeroDec]

\* ------------------------------------------------------------------------
\* distribution()
\* ------------------------------------------------------------------------

\* defaultDistriParams()
defaultDistriParams ==
    [yesVotesMultiplier |-> OneDec,
     noVotesMultiplier  |-> NewDec(4),
     bonus              |-> NewDecWithPrec(103, 2),
     malus              |-> NewDecWithPrec(97, 2),
     supplyFactor       |-> NewDecWithPrec(1, 1),
     supplyMintFactor   |-> Quo(OneDec, NewDec(9))]

\* The distrib both airdrop.atom and airdrop.atone start as.
newDistrib == [supply |-> ZeroDec, votes |-> newVoteMap, unstaked |-> ZeroDec]

\* The airdrop struct distribution() starts from.
newAirdrop(p) ==
    [params              |-> p,
     addresses           |-> <<>>,
     addressesDetail     |-> <<>>,
     nonVotersMultiplier |-> NilDec,
     atom                |-> newDistrib,
     atone               |-> newDistrib,
     icfSlash            |-> ZeroDec,
     communityPool       |-> NilDec,
     reservedAddr        |-> NilDec]

\* yesAtomAmt, noAtomAmt, noWithVetoAtomAmt, abstainAtomAmt, noVoteAtomAmt:
\* the staked amount of an account behind each option.
AtomAmt(acc) ==
    LET w == voteWeights(acc)
    IN  [v \in VoteOptions |-> Mul(w[v], acc.StakedAmount)]

\* FirstPass with a supply that counts the staked amount only.
FirstPassStakedSupply(atom, acc) ==
    LET amt == AtomAmt(acc)
    IN  [supply   |-> Add(atom.supply, acc.StakedAmount),
         votes    |-> [v \in VoteOptions |-> Add(atom.votes[v], amt[v])],
         unstaked |-> Add(atom.unstaked, acc.LiquidAmount)]

\* One iteration of the first loop: the account added to airdrop.atom.
FirstPass(atom, acc) ==
    LET amt == AtomAmt(acc)
    IN  [supply   |-> Add(atom.supply, Add(acc.StakedAmount, acc.LiquidAmount)),
         votes    |-> [v \in VoteOptions |-> Add(atom.votes[v], amt[v])],
         unstaked |-> Add(atom.unstaked, acc.LiquidAmount)]

\* targetNonVotersPerc
targetNonVotersPerc == NewDecWithPrec(33, 2)

yesAtoneTotalAmt(atom, p) == Mul(atom.votes["Yes"], p.yesVotesMultiplier)

noAtoneTotalAmt(atom, p) ==
    Mul(Add(atom.votes["No"], atom.votes["NoWithVeto"]), p.noVotesMultiplier)

noVotersAtomTotalAmt(atom) ==
    Add(Add(atom.votes["Abstain"], atom.votes["Empty"]), atom.unstaked)

\* nonVotersDivisor with t in the place of 1 - t.
nonVotersDivisorTarget(atom) ==
    Mul(targetNonVotersPerc, noVotersAtomTotalAmt(atom))

\* The divisor of the nonVotersMultiplier formula.
nonVotersDivisor(atom) ==
    Mul(Sub(OneDec, targetNonVotersPerc), noVotersAtomTotalAmt(atom))

\* nonVotersMultiplier = (t x (yesAtone + noAtone)) / ((1 - t) x nonVoterAtom)
nonVotersMultiplier(atom, p) ==
    Quo(Mul(targetNonVotersPerc,
            Add(yesAtoneTotalAmt(atom, p), noAtoneTotalAmt(atom, p))),
        nonVotersDivisor(atom))

\* liquidMultiplier without the malus.
liquidMultiplierNoMalus(nvm, p) == nvm

\* liquidMultiplier
liquidMultiplier(nvm, p) == Mul(nvm, p.malus)

\* The award of an account behind each option and for its liquid amount:
\* yesAirdropAmt, noAirdropAmt, noWithVetoAirdropAmt, abstainAirdropAmt,
\* noVoteAirdropAmt and liquidAirdropAmt.
AirdropAmt(acc, p, nvm) ==
    LET amt == AtomAmt(acc)
    IN  [Yes        |-> Mul(Mul(amt["Yes"], p.yesVotesMultiplier), p.supplyFactor),
         No         |-> Mul(Mul(amt["No"], p.noVotesMultiplier), p.supplyFactor),
         NoWithVeto |-> Mul(Mul(Mul(amt["NoWithVeto"], p.noVotesMultiplier),
                                p.bonus), p.supplyFactor),
         Abstain    |-> Mul(Mul(amt["Abstain"], nvm), p.supplyFactor),
         Empty      |-> Mul(Mul(Mul(amt["Empty"], nvm), p.malus), p.supplyFactor),
         Liquid     |-> Mul(Mul(acc.LiquidAmount, liquidMultiplier(nvm, p)),
                            p.supplyFactor)]

\* airdropAmt without the liquid award.
airdropAmtStakedOnly(a) ==
    Add(Add(Add(Add(a.Yes, a.No), a.NoWithVeto), a.Abstain), a.Empty)

\* stakedAirdropAmt
stakedAirdropAmt(a) ==
    Add(Add(Add(Add(a.Yes, a.No), a.NoWithVeto), a.Abstain), a.Empty)

\* airdropAmt, the total airdrop for an account with awards a.
airdropAmt(a) == Add(a.Liquid, stakedAirdropAmt(a))

\* One iteration of the second loop on airdrop.atone, for awards a.
SecondPass(atone, a) ==
    [supply   |-> Add(atone.supply, airdropAmt(a)),
     votes    |-> [v \in VoteOptions |-> Add(atone.votes[v], a[v])],
     unstaked |-> Add(atone.unstaked, a.Liquid)]

amtDetail(atomAmt, multiplier, bonusMalus, factor, atoneAmt) ==
    [AtomAmt |-> atomAmt, Multiplier |-> multiplier, BonusMalus |-> bonusMalus,
     Factor |-> factor, AtoneAmt |-> atoneAmt]

\* The airdropDetail stored for an account with awards a.
airdropDetail(acc, p, nvm, a) ==
    LET amt == AtomAmt(acc)
    IN  [YesDetail    |-> amtDetail(amt["Yes"], p.yesVotesMultiplier, OneDec,
                                    p.supplyFactor, a.Yes),
         NoDetail     |-> amtDetail(amt["No"], p.noVotesMultiplier, OneDec,
                                    p.supplyFactor, a.No),
         NWVDetail    |-> amtDetail(amt["NoWithVeto"], p.noVotesMultiplier,
                                    p.bonus, p.supplyFactor, a.NoWithVeto),
         AbsDetail    |-> amtDetail(amt["Abstain"], nvm, OneDec,
                                    p.supplyFactor, a.Abstain),
         DnvDetail    |-> amtDetail(amt["Empty"], nvm, p.malus,
                                    p.supplyFactor, a.Empty),
         LiquidDetail |-> amtDetail(acc.LiquidAmount, nvm, p.malus,
                                    p.supplyFactor, a.Liquid),
         Total        |-> airdropAmt(a)]

\* The sum the self-check compares with airdropAmt.
selfCheckAmt(a) ==
    Add(Add(Add(Add(Add(a.Yes, a.No), a.NoWithVeto), a.Abstain), a.Empty),
        a.Liquid)

\* m[k] = v on a Go map.
MapSet(m, k, v) == [x \in DOMAIN m \cup {k} |-> IF x = k THEN v ELSE m[x]]

\* mintedHalf without the division by 2.
mintedNotHalved(supply, p) == Mul(supply, p.supplyMintFactor)

\* minted / 2, the amount of both communityPool and reservedAddr.
mintedHalf(supply, p) == Quo(Mul(supply, p.supplyMintFactor), NewDec(2))

\* ------------------------------------------------------------------------
\* Inputs
\* ------------------------------------------------------------------------

\* The longest account list.
MaxAccounts == 2

\* 1.000000000000000001
OneAndOneUnit == Add(OneDec, <<1>>)

\* The accounts a list is made of: a Yes voter and a non-voter with 100
\* staked, an ICF wallet that voted Yes, an account whose address does not
\* decode, a second record of the first address with a small stake split
\* between Yes and No, an account split between Yes and Abstain, and a
\* second record of the non-voter's address that voted NoWithVeto.
Profiles ==
    { [Address |-> Addr("cosmos", "a"), StakedAmount |-> NewDec(100),
       LiquidAmount |-> ZeroDec, Vote |-> [v \in {"Yes"} |-> OneDec]],
      [Address |-> Addr("cosmos", "b"), StakedAmount |-> NewDec(100),
       LiquidAmount |-> ZeroDec, Vote |-> <<>>],
      [Address |-> icfWallets[1], StakedAmount |-> NewDec(50),
       LiquidAmount |-> NewDec(50), Vote |-> [v \in {"Yes"} |-> OneDec]],
      [Address |-> [hrp |-> "cosmos", bytes |-> "c", valid |-> FALSE],
       StakedAmount |-> NewDec(100), LiquidAmount |-> NewDec(100),
       Vote |-> [v \in {"No"} |-> OneDec]],
      [Address |-> Addr("cosmos", "a"), StakedAmount |-> OneAndOneUnit,
       LiquidAmount |-> ZeroDec,
       Vote |-> [v \in {"Yes", "No"} |-> NewDecWithPrec(5, 1)]],
      [Address |-> Addr("cosmos", "d"), StakedAmount |-> NewDec(9000),
       LiquidAmount |-> ZeroDec,
       Vote |-> [v \in {"Yes", "Abstain"} |->
                    IF v = "Yes" THEN NewDecWithPrec(67, 2)
                    ELSE NewDecWithPrec(33, 2)]],
      [Address |-> Addr("cosmos", "b"), StakedAmount |-> NewDec(50),
       LiquidAmount |-> ZeroDec, Vote |-> [v \in {"NoWithVeto"} |-> OneDec]] }

\* The account lists of at most MaxAccounts accounts.
AccountLists == UNION {[1..n -> Profiles] : n \in 0..MaxAccounts}

\* The parameters: the defaults, and the defaults without bonus and malus.
ParamChoices ==
    { defaultDistriParams,
      [defaultDistriParams EXCEPT !.bonus = OneDec, !.malus = OneDec] }

\* The target prefixes: none, and "atone".
Prefixes == {"", "atone"}

\* ret before distribution() returns.
NotReturned == [airdrop |-> <<>>, err |-> "unset"]

\* ------------------------------------------------------------------------
\* The run of distribution()
\* ------------------------------------------------------------------------

Init ==
    /\ accounts \in AccountLists
    /\ params \in ParamChoices
    /\ prefix \in Prefixes
    /\ pc = "pass1"
    /\ pos = 1
    /\ airdrop = newAirdrop(params)
    /\ ret = NotReturned
    /\ printed = <<>>

\* An iteration of the first loop.
FirstPassStep ==
    /\ pc = "pass1"
    /\ pos <= Len(accounts)
    /\ airdrop' = [airdrop EXCEPT !.atom = FirstPass(airdrop.atom, accounts[pos])]
    /\ pos' = pos + 1
    /\ UNCHANGED <<accounts, params, prefix, pc, ret, printed>>

\* Solve as soon as the first loop is at its last account, not past it.
SolveEarly ==
    /\ pc = "pass1"
    /\ pos >= Len(accounts)
    /\ ~IsZero(nonVotersDivisor(airdrop.atom))
    /\ airdrop' = [airdrop EXCEPT
                      !.nonVotersMultiplier = nonVotersMultiplier(airdrop.atom, params)]
    /\ pc' = "pass2"
    /\ pos' = 1
    /\ UNCHANGED <<accounts, params, prefix, ret, printed>>

\* After the first loop: nonVotersMultiplier is computed.
Solve ==
    /\ pc = "pass1"
    /\ pos > Len(accounts)
    /\ ~IsZero(nonVotersDivisor(airdrop.atom))
    /\ airdrop' = [airdrop EXCEPT
                      !.nonVotersMultiplier = nonVotersMultiplier(airdrop.atom, params)]
    /\ pc' = "pass2"
    /\ pos' = 1
    /\ UNCHANGED <<accounts, params, prefix, ret, printed>>

\* After the first loop, with a divisor of zero: Dec.Quo panics (division by
\* zero in big.Int.Quo) and distribution() returns nothing.
SolveDivisionByZero ==
    /\ pc = "pass1"
    /\ pos > Len(accounts)
    /\ IsZero(nonVotersDivisor(airdrop.atom))
    /\ pc' = "panic"
    /\ UNCHANGED <<accounts, params, prefix, pos, airdrop, ret, printed>>

\* SlashICF with an icfSlash that counts the liquid amount only.
SlashICFLiquidOnly ==
    /\ pc = "pass2"
    /\ pos <= Len(accounts)
    /\ Contains(icfWallets, accounts[pos].Address)
    /\ airdrop' = [airdrop EXCEPT
                      !.icfSlash = Add(airdrop.icfSlash, accounts[pos].LiquidAmount)]
    /\ pos' = pos + 1
    /\ UNCHANGED <<accounts, params, prefix, pc, ret, printed>>

\* An iteration of the second loop on an ICF wallet.
SlashICF ==
    /\ pc = "pass2"
    /\ pos <= Len(accounts)
    /\ Contains(icfWallets, accounts[pos].Address)
    /\ airdrop' = [airdrop EXCEPT
                      !.icfSlash = Add(Add(airdrop.icfSlash, accounts[pos].LiquidAmount),
                                       accounts[pos].StakedAmount)]
    /\ pos' = pos + 1
    /\ UNCHANGED <<accounts, params, prefix, pc, ret, printed>>

\* The address an award is stored under, and the error of deriving it.
awardAddr(acc) ==
    IF prefix # "" THEN convertBech32(acc.Address, "cosmos", prefix)
    ELSE [addr |-> acc.Address, err |-> "nil"]

\* addAddressAndAmount that keeps the detail an address already has.
addAddressAndAmountKeepDetail(air, acc, addr, a, amtInt) ==
    IF IsZero(amtInt) THEN air
    ELSE [air EXCEPT
            !.addresses = MapSet(air.addresses, addr, amtInt),
            !.addressesDetail =
                IF addr \in DOMAIN air.addressesDetail THEN air.addressesDetail
                ELSE MapSet(air.addressesDetail, addr,
                            airdropDetail(acc, params, air.nonVotersMultiplier, a))]

\* addAddressAndAmount without the skipping of a zero amount.
addAddressAndAmountAlways(air, acc, addr, a, amtInt) ==
    [air EXCEPT
        !.addresses = MapSet(air.addresses, addr, amtInt),
        !.addressesDetail =
            MapSet(air.addressesDetail, addr,
                   airdropDetail(acc, params, air.nonVotersMultiplier, a))]

\* The airdrop after "add address and amount (skipping 0 balance)": the
\* rounded award amtInt and the detail of awards a stored under addr, unless
\* amtInt is zero.
addAddressAndAmount(air, acc, addr, a, amtInt) ==
    IF IsZero(amtInt) THEN air
    ELSE [air EXCEPT
            !.addresses = MapSet(air.addresses, addr, amtInt),
            !.addressesDetail =
                MapSet(air.addressesDetail, addr,
                       airdropDetail(acc, params, air.nonVotersMultiplier, a))]

\* An iteration of the second loop on any other account, when no address
\* conversion fails: the award is added to airdrop.atone and, unless it rounds
\* to zero, stored under the account's address.
Award ==
    /\ pc = "pass2"
    /\ pos <= Len(accounts)
    /\ ~Contains(icfWallets, accounts[pos].Address)
    /\ LET acc == accounts[pos]
       IN  \E a \in {AirdropAmt(acc, params, airdrop.nonVotersMultiplier)} :
           \E amtInt \in {RoundInt(airdropAmt(a))} :
              /\ IsZero(amtInt) \/ awardAddr(acc).err = "nil"
              /\ airdrop' =
                    addAddressAndAmount(
                        [airdrop EXCEPT !.atone = SecondPass(airdrop.atone, a)],
                        acc, awardAddr(acc).addr, a, amtInt)
              /\ pc' = IF ~IsZero(amtInt) /\ selfCheckAmt(a) # airdropAmt(a)
                       THEN "panic" ELSE "pass2"
    /\ pos' = pos + 1
    /\ UNCHANGED <<accounts, params, prefix, ret, printed>>

\* An iteration of the second loop in which the address conversion fails: the
\* award is already added to airdrop.atone, and distribution() returns the
\* airdrop as it is, with the error.
ConversionError ==
    /\ pc = "pass2"
    /\ pos <= Len(accounts)
    /\ ~Contains(icfWallets, accounts[pos].Address)
    /\ LET acc == accounts[pos]
           nvm == airdrop.nonVotersMultiplier
       IN  \E a \in {AirdropAmt(acc, params, nvm)} :
              /\ ~IsZero(RoundInt(airdropAmt(a)))
              /\ awardAddr(acc).err # "nil"
              /\ airdrop' = [airdrop EXCEPT !.atone = SecondPass(airdrop.atone, a)]
              /\ ret' = [airdrop |-> airdrop', err |-> awardAddr(acc).err]
    /\ pc' = "returned"
    /\ UNCHANGED <<accounts, params, prefix, pos, printed>>

\* After the second loop: the minted part, and the return.
Mint ==
    /\ pc = "pass2"
    /\ pos > Len(accounts)
    /\ airdrop' = [airdrop EXCEPT
                      !.communityPool = mintedHalf(airdrop.atone.supply, params),
                      !.reservedAddr  = mintedHalf(airdrop.atone.supply, params)]
    /\ ret' = [airdrop |-> airdrop', err |-> "nil"]
    /\ pc' = "returned"
    /\ UNCHANGED <<accounts, params, prefix, pos, printed>>

\* printAirdropsStats(false, airdrops) on the airdrop distribution() returned
\* without error, up to its first table: printDistrib(airdrops[0].atom), whose
\* votePercentages() and unstaked.Quo(supply) panic on a supply of zero.
PrintAtom ==
    /\ pc = "returned"
    /\ ret.err = "nil"
    /\ printed' = Append(printed, ret.airdrop.atom)
    /\ pc' = IF IsZero(ret.airdrop.atom.supply) THEN "printPanic" ELSE "printAtone"
    /\ UNCHANGED <<accounts, params, prefix, pos, airdrop, ret>>

\* The rest of printAirdropsStats(): the ratio atone.supply / atom.supply, then
\* printDistrib(airdrop.atone), with the same two divisions by its supply.
PrintAtone ==
    /\ pc = "printAtone"
    /\ printed' = Append(printed, ret.airdrop.atone)
    /\ pc' = IF IsZero(ret.airdrop.atone.supply) THEN "printPanic" ELSE "printed"
    /\ UNCHANGED <<accounts, params, prefix, pos, airdrop, ret>>

Next ==
    \/ FirstPassStep
    \/ Solve
    \/ SolveDivisionByZero
    \/ SlashICF
    \/ Award
    \/ ConversionError
    \/ Mint
    \/ PrintAtom
    \/ PrintAtone

Spec == Init /\ [][Next]_vars

\* ------------------------------------------------------------------------
\* distribution() as a function of its account list
\* ------------------------------------------------------------------------

RECURSIVE firstLoop(_, _)
\* airdrop.atom after the first loop has been through the first n accounts
\* of accs.
firstLoop(accs, n) ==
    IF n = 0 THEN newDistrib
    ELSE Val({FirstPass(atom, accs[n]) : atom \in {firstLoop(accs, n - 1)}})

RECURSIVE secondLoop(_, _, _)
\* What distribution() returns when its second loop goes on from the k-th
\* account of accs with the airdrop air.
secondLoop(air, accs, k) ==
    IF k > Len(accs)
    THEN [airdrop |-> [air EXCEPT
                          !.communityPool = mintedHalf(air.atone.supply, params),
                          !.reservedAddr  = mintedHalf(air.atone.supply, params)],
          err |-> "nil"]
    ELSE IF Contains(icfWallets, accs[k].Address)
    THEN secondLoop([air EXCEPT
                        !.icfSlash = Add(Add(air.icfSlash, accs[k].LiquidAmount),
                                         accs[k].StakedAmount)],
                    accs, k + 1)
    ELSE Val({ IF ~IsZero(RoundInt(airdropAmt(a))) /\ awardAddr(accs[k]).err # "nil"
               THEN [airdrop |-> [air EXCEPT !.atone = SecondPass(air.atone, a)],
                     err |-> awardAddr(accs[k]).err]
               ELSE secondLoop(
                        addAddressAndAmount(
                            [air EXCEPT !.atone = SecondPass(air.atone, a)],
                            accs[k], awardAddr(accs[k]).addr, a,
                            RoundInt(airdropAmt(a))),
                        accs, k + 1)
               : a \in {AirdropAmt(accs[k], params, air.nonVotersMultiplier)} })

\* What distribution(accs, params, prefix) returns; when the solver divides by
\* zero it panics and returns nothing.
distribution(accs) ==
    Val({ IF IsZero(nonVotersDivisor(atom)) THEN [panic |-> "division by zero"]
          ELSE secondLoop([newAirdrop(params) EXCEPT
                              !.atom = atom,
                              !.nonVotersMultiplier =
                                  nonVotersMultiplier(atom, params)],
                          accs, 1)
          : atom \in {firstLoop(accs, Len(accs))} })

\* ------------------------------------------------------------------------
\* Properties
\* ------------------------------------------------------------------------

\* The non-voter part of a distrib: Abstain, Empty (did not vote) and unstaked.
NonVoters(d) == Add(Add(d.votes["Abstain"], d.votes["Empty"]), d.unstaked)

\* |x - y|
Diff(x, y) == IF Leq(x, y) THEN Sub(y, x) ELSE Sub(x, y)

\* 10^-15: a thousand units of the last digit of a Dec.
RoundingTolerance == NewDecWithPrec(1, 15)

\* x and y are equal up to decimal rounding, for quantities of the size of
\* scale: they differ by at most (scale + 1) * 10^-15.
Close(x, y, scale) ==
    Leq(Diff(x, y), Mul(Add(scale, OneDec), RoundingTolerance))

\* distribution() has returned without error.
Completed == pc = "returned" /\ ret.err = "nil"

\* Some account of the list is an ICF wallet.
HasICF == \E k \in 1..Len(accounts) : Contains(icfWallets, accounts[k].Address)

\* The parameters have neither bonus nor malus.
NoBonusMalus == params.bonus = OneDec /\ params.malus = OneDec

\* The non-voter share of the result distribution is the target 0.33, up to
\* decimal rounding.
ShareIsTarget(d) ==
    Close(NonVoters(d), Mul(NewDecWithPrec(33, 2), d.supply), d.supply)

\* C1, as claimed: after distribution() completes (so with a non-zero
\* non-voter pool), the non-voter share of the result distribution,
\* (atone.votes[Abstain] + atone.votes[NoVote] + atone.unstaked) / atone.supply,
\* equals 0.33 up to decimal rounding, whatever the parameters and also with
\* ICF wallets in the list.
C1_ShareIsTargetAlways ==
    (Completed /\ ~IsZero(ret.airdrop.atone.supply))
        => ShareIsTarget(ret.airdrop.atone)

\* C1, amended: after distribution() completes, nonVotersMultiplier gives the
\* non-voter pool 33% of the supply the solver projects, that is
\* 0.67 * nonVotersMultiplier * pool = 0.33 * (yesAtoneTotal + noAtoneTotal) up
\* to decimal rounding, whatever the parameters and the accounts; and the
\* non-voter share of the result distribution itself is 0.33 up to decimal
\* rounding when bonus = malus = 1 and no account is an ICF wallet.
C1_SolverSharesTarget ==
    Completed =>
        LET a    == ret.airdrop
            pool == NonVoters(a.atom)
            yes  == Mul(a.atom.votes["Yes"], params.yesVotesMultiplier)
            no   == Mul(Add(a.atom.votes["No"], a.atom.votes["NoWithVeto"]),
                        params.noVotesMultiplier)
        IN  /\ Close(Mul(NewDecWithPrec(67, 2), Mul(a.nonVotersMultiplier, pool)),
                     Mul(NewDecWithPrec(33, 2), Add(yes, no)),
                     Add(pool, a.nonVotersMultiplier))
            /\ (NoBonusMalus /\ ~HasICF /\ ~IsZero(a.atone.supply))
                  => ShareIsTarget(a.atone)

\* C1's case: a completed run without bonus, malus or ICF wallet, in which
\* voters and non-voters both got an award.
C1_Witness ==
    /\ Completed /\ NoBonusMalus /\ ~HasICF
    /\ ~IsZero(NonVoters(ret.airdrop.atone))
    /\ ~IsZero(ret.airdrop.atone.votes["Yes"])

\* C2, as claimed: after distribution() with a non-zero result supply, the
\* non-voter part atone.votes[Abstain] + atone.votes[NoVote] + atone.unstaked
\* is at most 33% of atone.supply (here: up to decimal rounding), also when
\* ICF wallets are in the list.
C2_NonVotersCapped ==
    (Completed /\ ~IsZero(ret.airdrop.atone.supply))
        => LET d == ret.airdrop.atone
           IN  Leq(NonVoters(d),
                   Add(Mul(NewDecWithPrec(33, 2), d.supply),
                       Mul(Add(d.supply, OneDec), RoundingTolerance)))

\* C3, as claimed: when the non-voter pool is zero after the first pass,
\* distribution() returns an error to its caller.
C3_ZeroPoolIsAnError ==
    (pc # "pass1" /\ IsZero(NonVoters(airdrop.atom)))
        => (pc = "returned" /\ ret.err # "nil")

\* C4, as claimed: when distribution() returns an error, the airdrop it
\* returns carries no addresses, no addressesDetail, no result-distrib totals
\* and no icfSlash.
C4_ErrorReturnsNoPartialAirdrop ==
    (pc = "returned" /\ ret.err # "nil")
        => /\ DOMAIN ret.airdrop.addresses = {}
           /\ DOMAIN ret.airdrop.addressesDetail = {}
           /\ ret.airdrop.atone = newDistrib
           /\ IsZero(ret.airdrop.icfSlash)

\* votes[Yes] + votes[No] + votes[NoWithVeto] + votes[Abstain] + votes[NoVote]
\* + unstaked of a distrib.
VotesAndUnstaked(d) ==
    Add(Add(Add(Add(Add(d.votes["Yes"], d.votes["No"]), d.votes["NoWithVeto"]),
                d.votes["Abstain"]), d.votes["Empty"]), d.unstaked)

\* The vote weights of every account of the list sum to 1.
WeightsSumToOne ==
    \A k \in 1..Len(accounts) :
        LET w == voteWeights(accounts[k])
        IN  Add(Add(Add(Add(w["Yes"], w["No"]), w["NoWithVeto"]), w["Abstain"]),
                w["Empty"]) = OneDec

\* The number of accounts the first loop has been through.
FirstPassDone == IF pc = "pass1" THEN pos - 1 ELSE Len(accounts)

\* C5, as claimed: with vote weights that sum to 1, after every iteration of
\* the first loop the atom votes and unstaked sum to atom.supply, and after
\* every iteration of the second loop the atone votes and unstaked sum to
\* atone.supply.
C5_ConservationExact ==
    WeightsSumToOne =>
        /\ VotesAndUnstaked(airdrop.atom) = airdrop.atom.supply
        /\ VotesAndUnstaked(airdrop.atone) = airdrop.atone.supply

\* C5, amended: with vote weights that sum to 1, after every iteration of the
\* second loop the atone votes and unstaked sum to atone.supply exactly; after
\* every iteration of the first loop the atom votes and unstaked sum to
\* atom.supply up to the rounding of weight * StakedAmount, that is within
\* 2 * 10^-18 per account gone through.
C5_Conservation ==
    WeightsSumToOne =>
        /\ VotesAndUnstaked(airdrop.atone) = airdrop.atone.supply
        /\ Leq(Diff(VotesAndUnstaked(airdrop.atom), airdrop.atom.supply),
               FromNat(2 * FirstPassDone))

\* C5's case: in the second loop, after an award, with atom totals that the
\* rounding of a split stake has taken off atom.supply.
C5_Witness ==
    /\ pc = "pass2" /\ pos > 1
    /\ ~IsZero(airdrop.atone.supply)
    /\ VotesAndUnstaked(airdrop.atom) # airdrop.atom.supply

\* The addresses of icfWallets.
IcfAddresses == {icfWallets[k] : k \in 1..Len(icfWallets)}

RECURSIVE IcfBalance(_)
\* StakedAmount + LiquidAmount summed over the ICF wallets among the first n
\* accounts.
IcfBalance(n) ==
    IF n = 0 THEN ZeroDec
    ELSE IF accounts[n].Address \in IcfAddresses
         THEN Add(IcfBalance(n - 1),
                  Add(accounts[n].StakedAmount, accounts[n].LiquidAmount))
         ELSE IcfBalance(n - 1)

\* No ICF wallet is a key of addresses or addressesDetail, as it is or under
\* the prefix "atone"; and at the end icfSlash is the balance of the ICF
\* wallets of the list.
IcfNeverAwarded ==
    /\ \A k \in 1..Len(accounts) :
          accounts[k].Address \in IcfAddresses =>
             \A key \in {accounts[k].Address,
                         [accounts[k].Address EXCEPT !.hrp = "atone"]} :
                /\ key \notin DOMAIN airdrop.addresses
                /\ key \notin DOMAIN airdrop.addressesDetail
    /\ Completed => ret.airdrop.icfSlash = IcfBalance(Len(accounts))

\* The iteration of the second loop on an ICF wallet leaves airdrop.atone,
\* addresses and addressesDetail as they are.
IcfIterationAddsNothing ==
    (pc = "pass2" /\ pos <= Len(accounts)
        /\ accounts[pos].Address \in IcfAddresses)
    => /\ airdrop'.atone = airdrop.atone
       /\ airdrop'.addresses = airdrop.addresses
       /\ airdrop'.addressesDetail = airdrop.addressesDetail

\* C6: an account whose address is in icfWallets gets no award: its address,
\* as it is or converted to the prefix, is a key of neither addresses nor
\* addressesDetail, its iteration adds nothing to atone.votes, atone.supply
\* or atone.unstaked, and at the end icfSlash is the sum of StakedAmount +
\* LiquidAmount over these accounts (100 for staked = 50, liquid = 50).
C6_IcfSlashed == []IcfNeverAwarded /\ [][IcfIterationAddsNothing]_vars

\* C6's case: a completed run on a list with an ICF wallet of staked = 50 and
\* liquid = 50 and an account that got an award: icfSlash is 100.
C6_Witness ==
    /\ Completed /\ HasICF
    /\ Len(accounts) = 2
    /\ DOMAIN ret.airdrop.addresses # {}
    /\ ret.airdrop.icfSlash = NewDec(100)

\* The sum of the AtoneAmt of the six details of an airdropDetail.
DetailSum(d) ==
    Add(Add(Add(Add(Add(d.YesDetail.AtoneAmt, d.NoDetail.AtoneAmt),
                        d.NWVDetail.AtoneAmt), d.AbsDetail.AtoneAmt),
            d.DnvDetail.AtoneAmt), d.LiquidDetail.AtoneAmt)

\* C7: for every address of the result, addressesDetail[addr].Total is the
\* sum of the AtoneAmt of its six details, and the self-check never panics:
\* the only panic is the division by zero of the solver, before the second
\* loop.
C7_TotalIsSumOfDetails ==
    /\ \A addr \in DOMAIN airdrop.addressesDetail :
          airdrop.addressesDetail[addr].Total
             = DetailSum(airdrop.addressesDetail[addr])
    /\ pc = "panic" => airdrop.nonVotersMultiplier = NilDec

\* C7's case: an address is stored whose detail has a staked and a liquid
\* award.
C7_Witness ==
    \E addr \in DOMAIN airdrop.addressesDetail :
        /\ ~IsZero(airdrop.addressesDetail[addr].LiquidDetail.AtoneAmt)
        /\ ~IsZero(airdrop.addressesDetail[addr].NoDetail.AtoneAmt)

\* AtoneAmt = AtomAmt * Multiplier * BonusMalus * Factor, with the rounding
\* of Dec.Mul.
DetailConsistent(d) ==
    d.AtoneAmt = Mul(Mul(Mul(d.AtomAmt, d.Multiplier), d.BonusMalus), d.Factor)

\* C8, as claimed: every amtDetail stored in addressesDetail has AtoneAmt =
\* AtomAmt * Multiplier * BonusMalus * Factor computed from its recorded
\* fields, for all six buckets.
C8_DetailsSelfConsistent ==
    \A addr \in DOMAIN airdrop.addressesDetail :
        LET d == airdrop.addressesDetail[addr]
        IN  /\ DetailConsistent(d.YesDetail)
            /\ DetailConsistent(d.NoDetail)
            /\ DetailConsistent(d.NWVDetail)
            /\ DetailConsistent(d.AbsDetail)
            /\ DetailConsistent(d.DnvDetail)
            /\ DetailConsistent(d.LiquidDetail)

\* Every amount stored in addresses is non-zero.
AddressesNonZero ==
    \A addr \in DOMAIN airdrop.addresses : ~IsZero(airdrop.addresses[addr])

\* The iteration of the second loop on an account that is no ICF wallet and
\* whose award rounds to zero leaves addresses and addressesDetail as they
\* are, and adds the account's awards, not rounded, to atone.votes,
\* atone.unstaked and atone.supply.
ZeroAwardIteration ==
    LET a     == AirdropAmt(accounts[pos], params, airdrop.nonVotersMultiplier)
        total == Add(Add(Add(Add(Add(a.Yes, a.No), a.NoWithVeto), a.Abstain),
                         a.Empty), a.Liquid)
    IN  (pc = "pass2" /\ pos <= Len(accounts)
            /\ accounts[pos].Address \notin IcfAddresses
            /\ IsZero(RoundInt(total)))
        => /\ airdrop'.addresses = airdrop.addresses
           /\ airdrop'.addressesDetail = airdrop.addressesDetail
           /\ \A v \in VoteOptions :
                 airdrop'.atone.votes[v] = Add(airdrop.atone.votes[v], a[v])
           /\ airdrop'.atone.unstaked = Add(airdrop.atone.unstaked, a.Liquid)
           /\ airdrop'.atone.supply = Add(airdrop.atone.supply, total)

\* C9: an account that is no ICF wallet and whose award rounds to the integer
\* zero gets no entry in addresses, every amount stored in addresses is
\* non-zero, and the awards of such an account, not rounded, are still added
\* to atone.votes, atone.supply and atone.unstaked.
C9_ZeroAwardSuppressed == []AddressesNonZero /\ [][ZeroAwardIteration]_vars

\* C9's case: the second loop has just been through an account whose award,
\* not zero, rounds to zero: atone.supply has grown past what addresses
\* holds, and the account's address is no key of addresses.
C9_Witness ==
    /\ pc = "pass2" /\ pos = Len(accounts) + 1 /\ pos > 1
    /\ accounts[pos - 1].Address \notin IcfAddresses
    /\ LET a == AirdropAmt(accounts[pos - 1], params, airdrop.nonVotersMultiplier)
       IN  /\ ~IsZero(airdropAmt(a))
           /\ IsZero(RoundInt(airdropAmt(a)))
    /\ accounts[pos - 1].Address \notin DOMAIN airdrop.addresses
    /\ DOMAIN airdrop.addresses # {}

\* atone.supply + communityPool + reservedAddr
TotalSupply(a) == Add(Add(a.atone.supply, a.communityPool), a.reservedAddr)

\* The case of the scenario: the default supplyMintFactor on a result supply
\* of 900.
Supply900 ==
    /\ Completed
    /\ ret.airdrop.atone.supply = NewDec(900)
    /\ params.supplyMintFactor = defaultDistriParams.supplyMintFactor

\* C10, as claimed: communityPool and reservedAddr are the same amount, and
\* with the default supplyMintFactor on a result supply of 900 they are 50
\* and 50 and the total new supply is 1000.
C10_MintedAsClaimed ==
    Completed =>
        /\ ret.airdrop.communityPool = ret.airdrop.reservedAddr
        /\ Supply900 =>
              /\ ret.airdrop.communityPool = NewDec(50)
              /\ ret.airdrop.reservedAddr = NewDec(50)
              /\ TotalSupply(ret.airdrop) = NewDec(1000)

\* C10, amended: communityPool and reservedAddr are the same amount,
\* atone.supply * supplyMintFactor / 2 in Dec arithmetic, so that together
\* they are within 10^-18 of atone.supply * supplyMintFactor; the default
\* supplyMintFactor is the Dec 0.111111111111111111, and on a result supply
\* of 900 it gives communityPool = reservedAddr = 49.99999999999999995 and a
\* total new supply of 999.9999999999999999 (50, 50 and 1000 once rounded).
C10_MintedSplitEvenly ==
    Completed =>
        /\ ret.airdrop.communityPool = ret.airdrop.reservedAddr
        /\ Leq(Diff(Add(ret.airdrop.communityPool, ret.airdrop.reservedAddr),
                    Mul(ret.airdrop.atone.supply, params.supplyMintFactor)),
               <<1>>)
        /\ Supply900 =>
              /\ ret.airdrop.communityPool = Sub(NewDec(50), <<50>>)
              /\ TotalSupply(ret.airdrop) = Sub(NewDec(1000), <<100>>)
              /\ RoundInt(ret.airdrop.communityPool) = <<50>>
              /\ RoundInt(TotalSupply(ret.airdrop)) = <<0, 1>>

\* C10's case: a completed run with a result supply of 900 under the default
\* supplyMintFactor.
C10_Witness == Supply900 /\ ~IsZero(ret.airdrop.communityPool)

\* The lists that hold the accounts of accs in another or the same order.
Reorderings(accs) ==
    { [k \in 1..Len(accs) |-> accs[f[k]]] :
        f \in { g \in [1..Len(accs) -> 1..Len(accs)] :
                   \A x, y \in 1..Len(accs) : x # y => g[x] # g[y] } }

\* No two accounts of the list have the same address.
DistinctAddresses ==
    \A x, y \in 1..Len(accounts) :
        x # y => accounts[x].Address # accounts[y].Address

\* The run is distribution() on the account list.
RunIsDistribution ==
    /\ pc = "returned" => ret = distribution(accounts)
    /\ pc = "panic" => "panic" \in DOMAIN distribution(accounts)

\* C11, as claimed: what distribution() returns is the same for every
\* permutation of the account list, with the same parameters and prefix, also
\* when an address occurs in more than one record: addresses,
\* addressesDetail, nonVotersMultiplier, both distribs, icfSlash,
\* communityPool and reservedAddr are identical.
C11_OrderIndependent ==
    Completed =>
        \A accs \in Reorderings(accounts) : distribution(accs).airdrop = ret.airdrop

\* Order independence for the lists of distinct addresses, when
\* distribution() returns no error.
OrderIndependentDistinct ==
    (Completed /\ DistinctAddresses) =>
        \A accs \in Reorderings(accounts) : distribution(accs) = ret

\* Order independence of all but addresses and addressesDetail, when
\* distribution() returns no error.
OrderIndependentTotals ==
    Completed =>
        \A accs \in Reorderings(accounts) :
            LET other == distribution(accs).airdrop
            IN  [other EXCEPT !.addresses = <<>>, !.addressesDetail = <<>>]
                = [ret.airdrop EXCEPT !.addresses = <<>>, !.addressesDetail = <<>>]

\* The award of an account by the stated formula, every product taken from
\* left to right in Dec arithmetic: Yes * yesMultiplier * supplyFactor
\* + No * noMultiplier * supplyFactor
\* + NoWithVeto * noMultiplier * bonus * supplyFactor
\* + Abstain * nonVotersMultiplier * supplyFactor
\* + NoVote * nonVotersMultiplier * malus * supplyFactor
\* + liquid * nonVotersMultiplier * malus * supplyFactor.
StatedAward(acc, p, nvm) ==
    LET w   == voteWeights(acc)
        amt == [v \in VoteOptions |-> Mul(w[v], acc.StakedAmount)]
    IN  Add(Add(Add(Add(Add(
            Mul(Mul(amt["Yes"], p.yesVotesMultiplier), p.supplyFactor),
            Mul(Mul(amt["No"], p.noVotesMultiplier), p.supplyFactor)),
            Mul(Mul(Mul(amt["NoWithVeto"], p.noVotesMultiplier), p.bonus),
                p.supplyFactor)),
            Mul(Mul(amt["Abstain"], nvm), p.supplyFactor)),
            Mul(Mul(Mul(amt["Empty"], nvm), p.malus), p.supplyFactor)),
            Mul(Mul(Mul(acc.LiquidAmount, nvm), p.malus), p.supplyFactor))

\* 0.33 * (yesWeighted + noWeighted) / (0.67 * nonVoterPool)
StatedMultiplier(atom, p) ==
    Quo(Mul(NewDecWithPrec(33, 2),
            Add(Mul(atom.votes["Yes"], p.yesVotesMultiplier),
                Mul(Add(atom.votes["No"], atom.votes["NoWithVeto"]),
                    p.noVotesMultiplier))),
        Mul(NewDecWithPrec(67, 2), NonVoters(atom)))

\* A of the scenario: staked = 100, voted 100% Yes, liquid = 0.
ScenarioA ==
    [Address |-> Addr("cosmos", "a"), StakedAmount |-> NewDec(100),
     LiquidAmount |-> ZeroDec, Vote |-> [v \in {"Yes"} |-> OneDec]]

\* B of the scenario: staked = 100, did not vote, liquid = 0.
ScenarioB ==
    [Address |-> Addr("cosmos", "b"), StakedAmount |-> NewDec(100),
     LiquidAmount |-> ZeroDec, Vote |-> <<>>]

\* The scenario: distribution() has returned on A and B under the default
\* parameters.
ScenarioAB ==
    /\ Completed
    /\ accounts = <<ScenarioA, ScenarioB>>
    /\ params = defaultDistriParams

\* nonVotersMultiplier, once computed, is the stated quotient; in the
\* scenario it is 0.33 * 100 / (0.67 * 100), A's award is 100 * 1 * 0.1 and
\* B's award is 100 * nonVotersMultiplier * 0.97 * 0.1.
MultiplierAsStated ==
    /\ airdrop.nonVotersMultiplier # NilDec =>
          airdrop.nonVotersMultiplier = StatedMultiplier(airdrop.atom, params)
    /\ ScenarioAB =>
          LET a   == ret.airdrop
              nvm == Quo(Mul(NewDecWithPrec(33, 2), NewDec(100)),
                         Mul(NewDecWithPrec(67, 2), NewDec(100)))
          IN  /\ a.nonVotersMultiplier = nvm
              /\ a.addressesDetail[awardAddr(ScenarioA).addr].Total
                    = Mul(Mul(NewDec(100), OneDec), NewDecWithPrec(1, 1))
              /\ a.addressesDetail[awardAddr(ScenarioB).addr].Total
                    = Mul(Mul(Mul(NewDec(100), nvm), NewDecWithPrec(97, 2)),
                          NewDecWithPrec(1, 1))

\* The iteration of the second loop on an account that is no ICF wallet adds
\* to atone.supply the award of the stated formula: exactly when the account
\* has no liquid amount, up to decimal rounding when it has.
AwardAsStated ==
    (pc = "pass2" /\ pos <= Len(accounts)
        /\ accounts[pos].Address \notin IcfAddresses)
    => LET stated == StatedAward(accounts[pos], params, airdrop.nonVotersMultiplier)
           added  == Sub(airdrop'.atone.supply, airdrop.atone.supply)
       IN  /\ Close(added, stated, stated)
           /\ IsZero(accounts[pos].LiquidAmount) => added = stated

\* C12: the award of an account that is no ICF wallet, not rounded, is
\* Yes * yesMultiplier * supplyFactor + No * noMultiplier * supplyFactor
\* + NoWithVeto * noMultiplier * bonus * supplyFactor
\* + Abstain * nonVotersMultiplier * supplyFactor
\* + NoVote * nonVotersMultiplier * malus * supplyFactor
\* + liquid * nonVotersMultiplier * malus * supplyFactor in Dec arithmetic
\* (the liquid term up to the rounding of the products), with
\* nonVotersMultiplier = 0.33 * (yesWeighted + noWeighted) / (0.67 * pool);
\* for A (100 staked, Yes) and B (100 staked, no vote) under the default
\* parameters nonVotersMultiplier = 0.33 * 100 / (0.67 * 100), A's award is
\* 100 * 1 * 0.1 and B's award is 100 * nonVotersMultiplier * 0.97 * 0.1.
C12_AwardFollowsFormula == []MultiplierAsStated /\ [][AwardAsStated]_vars

\* C12's case: the scenario has run, A and B both have their award stored,
\* A's being 10.
C12_Witness ==
    /\ ScenarioAB
    /\ awardAddr(ScenarioB).addr \in DOMAIN ret.airdrop.addresses
    /\ ret.airdrop.addresses[awardAddr(ScenarioA).addr] = <<10>>

\* C13, as claimed: votePercentages, and the division of unstaked by supply
\* next to it, is never evaluated on a distrib whose supply is zero, whatever
\* distribution() returned before the printing, a list of ICF wallets only
\* included.
C13_ZeroSupplyNeverPrinted ==
    \A k \in 1..Len(printed) : ~IsZero(printed[k].supply)

\* nonVotersMultiplier is not computed during the first loop; as long as it
\* is not computed nothing is awarded, added to airdrop.atone or slashed; once
\* computed it is the solution for the atom totals of the whole account
\* list; and the airdrop returned carries it.
SolvedFromCompleteTotals ==
    /\ pc = "pass1" => airdrop.nonVotersMultiplier = NilDec
    /\ airdrop.nonVotersMultiplier = NilDec =>
          /\ airdrop.atone = newDistrib
          /\ IsZero(airdrop.icfSlash)
          /\ DOMAIN airdrop.addresses = {}
          /\ DOMAIN airdrop.addressesDetail = {}
    /\ airdrop.nonVotersMultiplier # NilDec =>
          /\ airdrop.atom = firstLoop(accounts, Len(accounts))
          /\ airdrop.nonVotersMultiplier
                = nonVotersMultiplier(firstLoop(accounts, Len(accounts)), params)
    /\ ret # NotReturned =>
          ret.airdrop.nonVotersMultiplier = airdrop.nonVotersMultiplier

\* nonVotersMultiplier is computed in one step, after the first loop has been
\* through every account, which starts the second loop; from then on it and
\* the atom totals stay as they are.
SolvedOnce ==
    /\ (airdrop.nonVotersMultiplier = NilDec
            /\ airdrop'.nonVotersMultiplier # NilDec)
          => (pc = "pass1" /\ pos = Len(accounts) + 1 /\ pc' = "pass2" /\ pos' = 1)
    /\ airdrop.nonVotersMultiplier # NilDec =>
          /\ airdrop'.nonVotersMultiplier = airdrop.nonVotersMultiplier
          /\ airdrop'.atom = airdrop.atom

\* C14: the two passes are sequential: nonVotersMultiplier is computed once,
\* after the first loop has been through every account and so from the
\* complete atom votes and unstaked totals; no award, no update of
\* airdrop.atone and no update of icfSlash happens before it is computed; and
\* it has the same value for every account of the second loop and in the
\* airdrop returned.
C14_PassesSequential == []SolvedFromCompleteTotals /\ [][SolvedOnce]_vars

\* C14's case: the second loop has been through two accounts that both have
\* an award stored, with a nonVotersMultiplier that is not zero.
C14_Witness ==
    /\ pc = "pass2" /\ pos = 3 /\ Len(accounts) = 2
    /\ ~IsZero(airdrop.nonVotersMultiplier)
    /\ \E x, y \in DOMAIN airdrop.addresses : x # y

\* addresses and addressesDetail of an airdrop have the same keys, and the
\* amount of every key is the integer rounding of its detail's Total.
AddressesMatchDetails(air) ==
    /\ DOMAIN air.addresses = DOMAIN air.addressesDetail
    /\ \A addr \in DOMAIN air.addresses :
          air.addresses[addr] = RoundInt(air.addressesDetail[addr].Total)

\* C15: after every iteration of the second loop and in the airdrop
\* returned, addresses and addressesDetail have the same set of keys and
\* addresses[addr] is the integer rounding of addressesDetail[addr].Total,
\* also when the list holds an address more than once: the later record
\* replaces both entries together.
C15_AddressesMatchDetails ==
    /\ AddressesMatchDetails(airdrop)
    /\ ret # NotReturned => AddressesMatchDetails(ret.airdrop)

\* C15's case: the second loop has been through two records of one address
\* with different awards, and the entries are those of the second record.
C15_Witness ==
    /\ pc = "pass2" /\ pos = 3 /\ Len(accounts) = 2
    /\ accounts[1].Address = accounts[2].Address
    /\ LET key    == awardAddr(accounts[2]).addr
           first  == airdropAmt(AirdropAmt(accounts[1], params,
                                           airdrop.nonVotersMultiplier))
           second == airdropAmt(AirdropAmt(accounts[2], params,
                                           airdrop.nonVotersMultiplier))
       IN  /\ ~IsZero(RoundInt(first))
           /\ RoundInt(first) # RoundInt(second)
           /\ key \in DOMAIN airdrop.addresses
           /\ airdrop.addresses[key] = RoundInt(second)
           /\ airdrop.addressesDetail[key].Total = second

====
